---------------------------- MODULE Spec2Model ----------------------------
(***************************************************************************)
(* Model of the ranky VS Code extension: the Timer class (Timer.ts) and    *)
(* the session / delivery / credential logic of src/extension.ts.          *)
(*                                                                         *)
(* Time is in milliseconds (Date.now()).  Seconds returned by              *)
(* getElapsedSeconds() have two decimals and are kept as integer           *)
(* hundredths of a second.                                                 *)
(***************************************************************************)
EXTENDS Integers, Sequences, FiniteSets, TLC

VARIABLES
    now,               \* Date.now(), ms since the process was loaded
    ticks,             \* number of clock advances so far (bounds the run)
    timer,             \* the Timer object's private fields
    obs,               \* what a caller of the Timer has observed (last calls, captured values)
    dailyStats,        \* the day record
    inactivityTimeout, \* handle of the last scheduled watchdog timer, or NoHandle
    isTracking,
    rankyUser,         \* the credential held in memory, or null
    currentPanel,      \* TRUE iff the token webview panel is open
    statsAlreadySent,
    timeouts,          \* host: the pending setTimeout timers, [id, due]
    nextHandle,        \* host: number of timers scheduled so far
    statsCalls,        \* remote: the coding-stats calls issued in this run
    closes,            \* history: one entry per session close
    edited,            \* history: what the processed edit events amount to
    activation,        \* position of activate(): "none", "sleeping", "verifying", "done"
    acquisitions,      \* history: number of runs of authenticateWithToken
    deactivation,      \* position of deactivate(): "none", "awaiting", "done"
    disposed,          \* TRUE once the context's subscriptions are disposed
    vault,             \* context.secrets: the two persisted entries
    tasks,             \* the credential operations started so far, with their positions
    verified,          \* remote: userIds the verify-auth call has confirmed in this run
    createCalls,       \* remote: the create-account calls received
    provisioned        \* history: a token authentication has provisioned this installation

(***************************************************************************)
(* Bounds                                                                  *)
(***************************************************************************)
MaxTicks == 2          \* clock advances in a run
MaxEdits == 2          \* processed edit events in a run
MaxTasks == 1          \* credential operations in flight at once in Spec
MaxSubmissions == 2    \* credential operations started in a run of SpecAuth
MaxIgnored == 2        \* ignored edit events recorded in a run of SpecEdits

\* setTimeout(..., 1800000): the inactivity threshold, ms
InactivityMs == 1800000

\* the amounts by which the wall clock advances between two events: 4 ms (alone
\* it rounds to 0.00 s, twice to 0.01 s) and the inactivity threshold
TickSteps == {4, InactivityMs}

(***************************************************************************)
(* Timer (Timer.ts)                                                        *)
(***************************************************************************)
\* `null` of startTime / endTime; real timestamps are >= 0
NullTime == -1

NewTimer ==
    [startTime |-> NullTime, endTime |-> NullTime, running |-> FALSE, pausedTime |-> 0]

\* mutant of TimerStart: forgets the time accumulated before a pause
TimerStart_IgnoresPausedTime(t, n) ==
    IF ~t.running
    THEN [t EXCEPT !.startTime = n, !.endTime = NullTime, !.running = TRUE]
    ELSE t

\* mutant of TimerStart: the end of the previous interval is not cleared
TimerStart_KeepsEndTime(t, n) ==
    IF ~t.running
    THEN [t EXCEPT !.startTime = n - t.pausedTime, !.running = TRUE]
    ELSE t

TimerStart(t, n) ==
    IF ~t.running
    THEN [t EXCEPT !.startTime = n - t.pausedTime, !.endTime = NullTime, !.running = TRUE]
    ELSE t

TimerStop(t, n) ==
    IF t.running /\ t.startTime # NullTime
    THEN [t EXCEPT !.endTime = n, !.running = FALSE, !.pausedTime = 0]
    ELSE t

TimerPause(t, n) ==
    IF t.running /\ t.startTime # NullTime
    THEN [t EXCEPT !.pausedTime = n - t.startTime, !.running = FALSE]
    ELSE t

TimerResume(t, n) ==
    IF ~t.running /\ t.pausedTime > 0 THEN TimerStart(t, n) ELSE t

TimerReset(t) == NewTimer

IsRunning(t) == t.running

\* mutant of GetElapsedTime: no check of `running`, a paused timer keeps counting
GetElapsedTime_NoRunningCheck(t, n) ==
    IF t.startTime = NullTime THEN 0
    ELSE IF t.endTime # NullTime THEN t.endTime - t.startTime
    ELSE n - t.startTime

GetElapsedTime(t, n) ==
    IF t.startTime = NullTime THEN 0
    ELSE IF t.running THEN n - t.startTime
    ELSE IF t.endTime # NullTime THEN t.endTime - t.startTime
    ELSE t.pausedTime

\* Math.round(x) for x >= 0 given as num/den: floor(x + 1/2)
RoundDiv(num, den) == (2 * num + den) \div (2 * den)

\* getElapsedSeconds(): Math.round((ms / 1000) * 100) / 100, in hundredths of a
\* second; (ms / 1000) * 100 is ms / 10 (the clock of the model moves in steps
\* of 4 ms, away from the halves where the floating-point product could differ)
GetElapsedSeconds(t, n) == RoundDiv(GetElapsedTime(t, n), 10)

(***************************************************************************)
(* Values                                                                  *)
(***************************************************************************)
null == <<>>
Undefined == "undefined"
NoHandle == 0          \* `undefined` of inactivityTimeout; real handles are >= 1

\* obj.f of a JavaScript object: undefined when the property is absent
Field(r, f) == IF f \in DOMAIN r THEN r[f] ELSE Undefined

\* A stored string: `wellFormed` says whether it is JSON text, `value` what it denotes.
\* JSON.stringify of an object drops the properties whose value is undefined.
JsonStringify(r) ==
    [wellFormed |-> TRUE, value |-> [f \in {g \in DOMAIN r : r[g] # Undefined} |-> r[f]]]

\* mutant of JsonParse: text that is not JSON is read as far as it goes
JsonParse_Lenient(s) == s.value

\* JSON.parse: the object, or null when it throws a SyntaxError
JsonParse(s) == IF s.wellFormed THEN s.value ELSE null

\* Tokens a user can paste: `signed` says whether jsonwebtoken.verify accepts it
\* (well-formed, signed with the extension's key, not expired).
TokenAlice ==
    [signed |-> TRUE,
     payload |-> [userId |-> "u1", email |-> "alice@x", username |-> "alice",
                  fullName |-> "Alice"]]

TokenBob ==
    [signed |-> TRUE,
     payload |-> [userId |-> "u2", email |-> "bob@x", userName |-> "bob",
                  fullName |-> "Bob"]]

TokenForged ==
    [signed |-> FALSE,
     payload |-> [userId |-> "u1", email |-> "alice@x", username |-> "alice",
                  fullName |-> "Alice"]]

Tokens == {TokenAlice, TokenBob, TokenForged}

\* mutant of ParseJWT: the token is decoded and its signature not checked
ParseJWT_DecodeOnly(token) == token.payload

\* parseJWT: the decoded payload, or null when verify() throws
ParseJWT(token) == IF token.signed THEN token.payload ELSE null

\* verifyAuthWithBackend: what the remote service can answer
VerifyResponses == {"success", "rejected", "http_error", "throws"}

VerifyAuthWithBackend(resp) == resp = "success"

\* createUserAccountFromExtensionSide: what the remote service can answer
CreateResponses == {"success", "refused", "throws"}

CreateUserAccount(resp) == resp = "success"

\* the coding-stats endpoint: 2xx, 401 (a non-2xx status), or fetch throws
StatsResponses == {"ok", "unauthorized", "throws"}

\* mutant of SendResult: no try/catch around fetch, a thrown error rejects the promise
SendResult_NoCatch(resp) ==
    IF resp = "ok" THEN "true" ELSE IF resp = "throws" THEN "rejected" ELSE "false"

\* sendCodingStatsToBackend: how its promise settles for a response
SendResult(resp) == IF resp = "ok" THEN "true" ELSE "false"

\* the identity a token carries, by the fields TokenPayload declares
TokenIdentity(payload) ==
    [userId   |-> Field(payload, "userId"),
     email    |-> Field(payload, "email"),
     username |-> Field(payload, "username"),
     name     |-> Field(payload, "fullName")]

\* processTokenFromWebView, lines 499-504: the RankyUser built from the payload
UserDataOf(payload) ==
    [userId   |-> Field(payload, "userId"),
     email    |-> Field(payload, "email"),
     username |-> Field(payload, "userName"),
     name     |-> Field(payload, "fullName")]

\* processTokenFromWebView, lines 511-516: the profile written to the vault
NewUserData(userData) ==
    [email       |-> userData.email,
     username    |-> userData.username,
     userId      |-> userData.userId,
     userCreated |-> "true"]

EmptyVault == [auth |-> null, token |-> null]

\* the vault as a successful token submission of an earlier run leaves it
CachedVault(token) ==
    [auth |-> JsonStringify(NewUserData(UserDataOf(ParseJWT(token)))), token |-> token]

InitialVaults == {EmptyVault, CachedVault(TokenAlice)}

\* a profile entry whose text was cut short: JSON.parse throws on it
CorruptProfile == [wellFormed |-> FALSE, value |-> [email |-> "alice@x"]]

\* the vault as any earlier run, or an interrupted one, can have left it: also
\* with one entry only, and with a profile that is not JSON text
AnyVaults ==
    InitialVaults \cup
    { [CachedVault(TokenAlice) EXCEPT !.token = null],
      [CachedVault(TokenAlice) EXCEPT !.auth = null],
      [CachedVault(TokenAlice) EXCEPT !.auth = CorruptProfile] }

\* Array.from(text), one string per character
TextHello == <<"h", "i", " ", "y", "o">>
TextLine == <<"x", "\n">>

Languages == {"python", "go"}

\* the edit events of a session: a typed word pair, a line break
SessionEdits ==
    { [languageId |-> "python", contentChanges |-> << [text |-> TextHello, rangeLength |-> 0] >>],
      [languageId |-> "go", contentChanges |-> << [text |-> TextLine, rangeLength |-> 0] >>],
      [languageId |-> "go", contentChanges |-> << >>] }

TextPadded == <<" ", "h", "i", " ", " ", "y", "o", "\t">>
TextTwoLines == <<"a", "\n", "b", "\n">>
TextBlank == <<" ", " ">>
TextWord == <<"y", "o">>

\* the edit events an editor produces: insertions with padding and runs of
\* whitespace, line breaks, replacements of a selection, blank text, a deletion,
\* an event of two changes, an event without changes
EditorEdits ==
    { [languageId |-> "python", contentChanges |-> << [text |-> TextPadded, rangeLength |-> 0] >>],
      [languageId |-> "python", contentChanges |-> << [text |-> TextLine, rangeLength |-> 0] >>],
      [languageId |-> "go", contentChanges |-> << [text |-> TextTwoLines, rangeLength |-> 2] >>],
      [languageId |-> "go", contentChanges |-> << [text |-> TextBlank, rangeLength |-> 0] >>],
      [languageId |-> "go", contentChanges |-> << [text |-> TextHello, rangeLength |-> 0],
                                                 [text |-> TextWord, rangeLength |-> 1] >>],
      [languageId |-> "python", contentChanges |-> << [text |-> <<>>, rangeLength |-> 3] >>],
      [languageId |-> "go", contentChanges |-> << >>] }

(***************************************************************************)
(* Metrics of one content change (handleUserCoding, lines 733-749)         *)
(***************************************************************************)
IsSpace(c) == c \in {" ", "\n", "\t"}

\* mutant of CountNewlines: a text with line breaks counts as one line
CountNewlines_OnePerText(text) == IF \E i \in 1..Len(text) : text[i] = "\n" THEN 1 ELSE 0

\* (text.match(/\n/g) || []).length
CountNewlines(text) == Cardinality({i \in 1..Len(text) : text[i] = "\n"})

RECURSIVE TrimStart(_)
TrimStart(text) ==
    IF text # <<>> /\ IsSpace(Head(text)) THEN TrimStart(Tail(text)) ELSE text

RECURSIVE TrimEnd(_)
TrimEnd(text) ==
    IF text # <<>> /\ IsSpace(text[Len(text)])
    THEN TrimEnd(SubSeq(text, 1, Len(text) - 1))
    ELSE text

\* text.trim()
Trim(text) == TrimEnd(TrimStart(text))

\* text.split(/\s+/): the pieces between runs of whitespace (`cur` is the piece being read)
RECURSIVE SplitWs(_, _)
SplitWs(text, cur) ==
    IF text = <<>> THEN <<cur>>
    ELSE IF IsSpace(Head(text))
         THEN <<cur>> \o SplitWs(TrimStart(text), <<>>)
         ELSE SplitWs(Tail(text), Append(cur, Head(text)))

\* .filter((w) => w.length > 0).length
WordsOf(text) == SelectSeq(SplitWs(Trim(text), <<>>), LAMBDA w : Len(w) > 0)

\* mutant of WordsAdded: the replaced range is not looked at
WordsAdded_AnyRange(change) ==
    IF Len(change.text) > 0
    THEN IF Len(Trim(change.text)) > 0 /\ CountNewlines(change.text) = 0
         THEN Len(WordsOf(change.text))
         ELSE 0
    ELSE 0

\* the words one change adds to totalWords
WordsAdded(change) ==
    IF Len(change.text) > 0 /\ change.rangeLength = 0
    THEN IF Len(Trim(change.text)) > 0 /\ CountNewlines(change.text) = 0
         THEN Len(WordsOf(change.text))
         ELSE 0
    ELSE 0

RECURSIVE ApplyChanges(_, _)
ApplyChanges(stats, changes) ==
    IF changes = <<>> THEN stats
    ELSE ApplyChanges(
            [stats EXCEPT !.totalLines = @ + CountNewlines(Head(changes).text),
                          !.totalWords = @ + WordsAdded(Head(changes))],
            Tail(changes))

\* mutant of SetAdd: Array.prototype.push
SetAdd_Push(seq, x) == Append(seq, x)

\* Set.prototype.add on the insertion-ordered language set
SetAdd(seq, x) == IF \E i \in 1..Len(seq) : seq[i] = x THEN seq ELSE Append(seq, x)

\* initializeDailyStats(); the date is the day the process started
InitialDailyStats ==
    [date |-> "today", totalTimeMinutes |-> 0, totalWords |-> 0, totalLines |-> 0,
     languages |-> <<>>]

(***************************************************************************)
(* The module-level state of extension.ts, with the host's timers and the  *)
(* calls sent, as one record: the handlers below are functions on it.      *)
(***************************************************************************)
Mem ==
    [timer |-> timer, dailyStats |-> dailyStats, inactivityTimeout |-> inactivityTimeout,
     isTracking |-> isTracking, rankyUser |-> rankyUser, currentPanel |-> currentPanel,
     statsAlreadySent |-> statsAlreadySent, timeouts |-> timeouts,
     nextHandle |-> nextHandle, statsCalls |-> statsCalls, closes |-> closes, edited |-> edited,
     acquisitions |-> acquisitions]

Commit(m) ==
    /\ timer' = m.timer
    /\ dailyStats' = m.dailyStats
    /\ inactivityTimeout' = m.inactivityTimeout
    /\ isTracking' = m.isTracking
    /\ rankyUser' = m.rankyUser
    /\ currentPanel' = m.currentPanel
    /\ statsAlreadySent' = m.statsAlreadySent
    /\ timeouts' = m.timeouts
    /\ nextHandle' = m.nextHandle
    /\ statsCalls' = m.statsCalls
    /\ closes' = m.closes
    /\ edited' = m.edited
    /\ acquisitions' = m.acquisitions

memVars ==
    <<timer, dailyStats, inactivityTimeout, isTracking, rankyUser, currentPanel,
      statsAlreadySent, timeouts, nextHandle, statsCalls, closes, edited, acquisitions>>

\* clearTimeout(handle)
ClearTimeout(m, handle) ==
    [m EXCEPT !.timeouts = {t \in @ : t.id # handle}]

\* mutant of SetTimeout: a handle is returned and no timer is left pending
SetTimeout_NeverDue(m, n) ==
    [m EXCEPT !.nextHandle = @ + 1, !.inactivityTimeout = m.nextHandle + 1]

\* mutant of SetTimeout: the timer is due after 4 ms
SetTimeout_ShortDelay(m, n) ==
    [m EXCEPT !.nextHandle = @ + 1,
              !.timeouts = @ \cup {[id |-> m.nextHandle + 1, due |-> n + 4]},
              !.inactivityTimeout = m.nextHandle + 1]

\* setTimeout(endSession, InactivityMs) at time n
SetTimeout(m, n) ==
    [m EXCEPT !.nextHandle = @ + 1,
              !.timeouts = @ \cup {[id |-> m.nextHandle + 1, due |-> n + InactivityMs]},
              !.inactivityTimeout = m.nextHandle + 1]

\* mutant of StatsPayload: the seconds of the record are sent as minutes
StatsPayload_Minutes(m, reason) ==
    [email |-> Field(m.rankyUser, "email"),
     uniqueId |-> Field(m.rankyUser, "userId"),
     date |-> m.dailyStats.date,
     totalTimeMinutes |-> m.dailyStats.totalTimeMinutes \div 60,
     totalWords |-> m.dailyStats.totalWords,
     totalLines |-> m.dailyStats.totalLines,
     languages |-> m.dailyStats.languages,
     sessionEndReason |-> reason]

\* the CodingStatsPayload built from the day record and the credential
StatsPayload(m, reason) ==
    [email |-> Field(m.rankyUser, "email"),
     uniqueId |-> Field(m.rankyUser, "userId"),
     date |-> m.dailyStats.date,
     totalTimeMinutes |-> m.dailyStats.totalTimeMinutes,
     totalWords |-> m.dailyStats.totalWords,
     totalLines |-> m.dailyStats.totalLines,
     languages |-> m.dailyStats.languages,
     sessionEndReason |-> reason]

\* sendCodingStatsToBackend(payload): the fetch is issued; `awaited` says whether
\* the caller awaits the promise
SendCodingStatsToBackend(m, payload, awaited) ==
    [m EXCEPT !.statsCalls =
        Append(@, [payload |-> payload, response |-> "pending", settled |-> "pending",
                   awaited |-> awaited, acquisitionsBefore |-> m.acquisitions])]

\* mutant of ShouldSendOnClose: the sent flag is not consulted
ShouldSendOnClose_NoSentCheck(m) ==
    m.rankyUser # null /\ m.dailyStats.totalTimeMinutes > 0

\* mutant of ShouldSendOnClose: the time of the record is not consulted
ShouldSendOnClose_NoTimeCheck(m) ==
    m.rankyUser # null /\ ~m.statsAlreadySent

\* mutant of ShouldSendOnClose: the credential is not consulted
ShouldSendOnClose_NoUserCheck(m) ==
    m.dailyStats.totalTimeMinutes > 0 /\ ~m.statsAlreadySent

\* endSession, line 767
ShouldSendOnClose(m) ==
    m.rankyUser # null /\ m.dailyStats.totalTimeMinutes > 0 /\ ~m.statsAlreadySent

\* mutant of SendInactivityStats: the flag is not set before the call
SendInactivityStats_NoMark(m) ==
    SendCodingStatsToBackend(m, StatsPayload(m, "inactivity"), FALSE)

\* endSession, lines 768-782
SendInactivityStats(m) ==
    SendCodingStatsToBackend([m EXCEPT !.statsAlreadySent = TRUE],
                             StatsPayload(m, "inactivity"), FALSE)

\* mutant of CloseSession: the clock is left running
CloseSession_NoStop(m, n, by) ==
    [m EXCEPT !.dailyStats.totalTimeMinutes = @ + GetElapsedSeconds(m.timer, n),
              !.isTracking = FALSE,
              !.closes = Append(@, [by |-> by, elapsed |-> GetElapsedSeconds(m.timer, n),
                                    hadUser |-> m.rankyUser # null,
                                    sentBefore |-> m.statsAlreadySent,
                                    callsBefore |-> Len(m.statsCalls)])]

\* endSession, lines 760-764: the elapsed seconds are added and the clock is stopped
CloseSession(m, n, by) ==
    [m EXCEPT !.dailyStats.totalTimeMinutes = @ + GetElapsedSeconds(m.timer, n),
              !.timer = TimerStop(@, n),
              !.isTracking = FALSE,
              !.closes = Append(@, [by |-> by, elapsed |-> GetElapsedSeconds(m.timer, n),
                                    hadUser |-> m.rankyUser # null,
                                    sentBefore |-> m.statsAlreadySent,
                                    callsBefore |-> Len(m.statsCalls)])]

\* endSession(); `by` names the caller in the history
EndSession(m, n, by) ==
    LET m1 == IF IsRunning(m.timer)
              THEN LET c == CloseSession(m, n, by)
                   IN IF ShouldSendOnClose(c) THEN SendInactivityStats(c) ELSE c
              ELSE m
    IN IF m1.inactivityTimeout # NoHandle
       THEN [ClearTimeout(m1, m1.inactivityTimeout) EXCEPT !.inactivityTimeout = NoHandle]
       ELSE m1

\* mutant of HandleUserCoding: the pending watchdog timer is not cancelled
HandleUserCoding_NoClear(m, e, n) ==
    LET m1 == [m EXCEPT !.dailyStats.languages = SetAdd(@, e.languageId)]
        m3 == IF ~IsRunning(m1.timer)
              THEN [m1 EXCEPT !.timer = TimerStart(@, n), !.isTracking = TRUE]
              ELSE m1
        m4 == [m3 EXCEPT !.dailyStats = ApplyChanges(@, e.contentChanges)]
    IN SetTimeout(m4, n)

\* handleUserCoding(e) with an active editor
HandleUserCoding(m, e, n) ==
    LET m1 == [m EXCEPT !.dailyStats.languages = SetAdd(@, e.languageId)]
        m2 == IF m1.inactivityTimeout # NoHandle
              THEN ClearTimeout(m1, m1.inactivityTimeout)
              ELSE m1
        m3 == IF ~IsRunning(m2.timer)
              THEN [m2 EXCEPT !.timer = TimerStart(@, n), !.isTracking = TRUE]
              ELSE m2
        m4 == [m3 EXCEPT !.dailyStats = ApplyChanges(@, e.contentChanges)]
    IN SetTimeout(m4, n)

\* mutant of DisposeHandler: the running session is not ended
DisposeHandler_NoEnd(m, n) ==
    LET m2 == IF m.inactivityTimeout # NoHandle
              THEN ClearTimeout(m, m.inactivityTimeout)
              ELSE m
    IN [m2 EXCEPT !.currentPanel = FALSE, !.rankyUser = null]

\* the dispose handler pushed by activate, lines 599-610
DisposeHandler(m, n) ==
    LET m1 == IF IsRunning(m.timer) THEN EndSession(m, n, "dispose") ELSE m
        m2 == IF m1.inactivityTimeout # NoHandle
              THEN ClearTimeout(m1, m1.inactivityTimeout)
              ELSE m1
    IN [m2 EXCEPT !.currentPanel = FALSE, !.rankyUser = null]

\* deactivate, lines 827-832
ShouldSendOnDeactivate(m) ==
    m.rankyUser # null /\ m.dailyStats.totalTimeMinutes > 0 /\ ~m.statsAlreadySent

\* deactivate, lines 833-846
SendCloseStats(m) ==
    SendCodingStatsToBackend([m EXCEPT !.statsAlreadySent = TRUE],
                             StatsPayload(m, "vscode_close"), TRUE)

\* deactivate, lines 814-824: up to the decision to send
DeactivateBegin(m, n) ==
    LET m1 == IF IsRunning(m.timer) THEN EndSession(m, n, "deactivate") ELSE m
        m2 == IF m1.inactivityTimeout # NoHandle
              THEN ClearTimeout(m1, m1.inactivityTimeout)
              ELSE m1
    IN [m2 EXCEPT !.currentPanel = FALSE]

(***************************************************************************)
(* The wall clock                                                          *)
(***************************************************************************)
extVars ==
    <<dailyStats, inactivityTimeout, isTracking, rankyUser, currentPanel,
      statsAlreadySent, timeouts, nextHandle, statsCalls, closes, edited, activation,
      acquisitions, deactivation, disposed, vault, tasks, verified, createCalls,
      provisioned>>

Tick ==
    /\ ticks < MaxTicks
    /\ \E d \in TickSteps : now' = now + d
    /\ ticks' = ticks + 1
    /\ obs' = [obs EXCEPT !.fresh = FALSE]
    /\ UNCHANGED <<timer, extVars>>

\* The extension reads the clock through the timer of an open session and the
\* watchdog it arms, and both only as differences; the time that passes with no
\* session open shifts every later timestamp alike.
SessionTick ==
    /\ IsRunning(timer)
    /\ Tick

\* time passes until a pending watchdog timer is due
AwaitTimer ==
    /\ \E t \in timeouts : t.due > now /\ now' = t.due
    /\ obs' = [obs EXCEPT !.fresh = FALSE]
    /\ UNCHANGED <<ticks, timer, extVars>>

(***************************************************************************)
(* A caller driving the Timer directly                                     *)
(***************************************************************************)
NoObs ==
    [lastOps |-> <<>>, fresh |-> TRUE, pausedRunning |-> FALSE, atPause |-> 0,
     pausedAt |-> 0]

\* the last two calls, most recent last
Recorded(ops, op) == IF Len(ops) < 2 THEN Append(ops, op) ELSE <<ops[2], op>>

CallStart ==
    /\ timer' = TimerStart(timer, now)
    /\ obs' = [obs EXCEPT !.lastOps = Recorded(@, "start"), !.fresh = TRUE]
    /\ UNCHANGED <<now, ticks, extVars>>

CallStop ==
    /\ timer' = TimerStop(timer, now)
    /\ obs' = [obs EXCEPT !.lastOps = Recorded(@, "stop"), !.fresh = TRUE]
    /\ UNCHANGED <<now, ticks, extVars>>

CallPause ==
    /\ timer' = TimerPause(timer, now)
    /\ obs' = [obs EXCEPT !.lastOps = Recorded(@, "pause"), !.fresh = TRUE,
                          !.pausedRunning = IsRunning(timer),
                          !.atPause = GetElapsedTime(timer, now),
                          !.pausedAt = now]
    /\ UNCHANGED <<now, ticks, extVars>>

CallResume ==
    /\ timer' = TimerResume(timer, now)
    /\ obs' = [obs EXCEPT !.lastOps = Recorded(@, "resume"), !.fresh = TRUE]
    /\ UNCHANGED <<now, ticks, extVars>>

CallReset ==
    /\ timer' = TimerReset(timer)
    /\ obs' = [obs EXCEPT !.lastOps = Recorded(@, "reset"), !.fresh = TRUE]
    /\ UNCHANGED <<now, ticks, extVars>>

(***************************************************************************)
(* activate (lines 597-701) and authenticateWithToken (lines 550-584)      *)
(***************************************************************************)
credVars == <<vault, tasks, verified, createCalls, provisioned>>
clockVars == <<now, ticks, obs>>

\* activate up to the one-second wait: the dispose handler is registered
Activate ==
    /\ activation = "none"
    /\ activation' = "sleeping"
    /\ UNCHANGED <<clockVars, memVars, deactivation, disposed, credVars>>

\* activate, lines 637-700: the timer, the day record, the subscriptions
FinishActivation(user, panel) ==
    /\ rankyUser' = user
    /\ currentPanel' = panel
    /\ timer' = NewTimer
    /\ dailyStats' = InitialDailyStats
    /\ activation' = "done"

\* authenticateWithToken: the vault is read; a cached profile is sent for
\* verification, otherwise the token panel is opened and null is returned
ActivateAuthenticate ==
    /\ activation = "sleeping"
    /\ acquisitions' = acquisitions + 1
    /\ IF vault.auth # null /\ vault.token # null
       THEN IF JsonParse(vault.auth) # null
            THEN /\ activation' = "verifying"
                 /\ UNCHANGED <<vault, rankyUser, currentPanel, timer, dailyStats>>
            ELSE /\ vault' = EmptyVault
                 /\ FinishActivation(null, TRUE)
       ELSE /\ FinishActivation(null, TRUE)
            /\ UNCHANGED vault
    /\ UNCHANGED <<clockVars, inactivityTimeout, isTracking, statsAlreadySent, timeouts,
                   nextHandle, statsCalls, closes, edited, deactivation, disposed, tasks,
                   verified, createCalls, provisioned>>

\* the verify-auth response for the cached profile arrives
ActivateVerified ==
    /\ activation = "verifying"
    /\ \E resp \in VerifyResponses :
          LET userData == JsonParse(vault.auth) IN
          IF VerifyAuthWithBackend(resp)
          THEN /\ FinishActivation(userData, currentPanel)
               /\ verified' = verified \cup {Field(userData, "userId")}
               /\ UNCHANGED vault
          ELSE /\ vault' = EmptyVault
               /\ FinishActivation(null, TRUE)
               /\ UNCHANGED verified
    /\ UNCHANGED <<clockVars, inactivityTimeout, isTracking, statsAlreadySent, timeouts,
                   nextHandle, statsCalls, closes, edited, acquisitions, deactivation, disposed,
                   tasks, createCalls, provisioned>>

(***************************************************************************)
(* What the processed edit events amount to, counted from the events       *)
(***************************************************************************)
NoEdits == [newlines |-> 0, tokens |-> 0, languageIds |-> {}, ignored |-> 0]

\* the event arrives with no active editor, or carries no content changes
Ignorable(e, editor) == ~editor \/ Len(e.contentChanges) = 0

RECURSIVE NewlinesIn(_)
NewlinesIn(text) ==
    IF text = <<>> THEN 0
    ELSE (IF Head(text) = "\n" THEN 1 ELSE 0) + NewlinesIn(Tail(text))

\* the whitespace-separated tokens of a text: one per character that starts a token
TokensIn(text) ==
    Cardinality({i \in 1..Len(text) :
                    ~IsSpace(text[i]) /\ (i = 1 \/ IsSpace(text[i - 1]))})

\* a pure insertion of non-blank text with no line break
CountsWords(change) ==
    /\ change.rangeLength = 0
    /\ \E i \in 1..Len(change.text) : ~IsSpace(change.text[i])
    /\ \A i \in 1..Len(change.text) : change.text[i] # "\n"

RECURSIVE Tally(_, _, _)
Tally(ed, languageId, changes) ==
    IF changes = <<>>
    THEN [ed EXCEPT !.languageIds = @ \cup {languageId}]
    ELSE Tally([ed EXCEPT !.newlines = @ + NewlinesIn(Head(changes).text),
                          !.tokens = @ + (IF CountsWords(Head(changes))
                                          THEN TokensIn(Head(changes).text)
                                          ELSE 0)],
               languageId, Tail(changes))

(***************************************************************************)
(* Editing and the watchdog                                                *)
(***************************************************************************)
\* mutant of OnDidChangeTextDocument: the active editor is not looked at
OnDidChangeTextDocument_NoEditorGuard(m, e, editor, n) ==
    IF Len(e.contentChanges) > 0 THEN HandleUserCoding(m, e, n) ELSE m

\* the listener of onDidChangeTextDocument (lines 640-644) and the guard of
\* handleUserCoding (lines 715-718); `editor` says whether
\* window.activeTextEditor is set
OnDidChangeTextDocument(m, e, editor, n) ==
    IF Len(e.contentChanges) > 0 /\ editor THEN HandleUserCoding(m, e, n) ELSE m

\* history: the event is tallied; the ignorable ones are counted, up to maxIgnored
Noted(ed, e, editor, maxIgnored) ==
    IF Ignorable(e, editor)
    THEN [ed EXCEPT !.ignored = IF @ < maxIgnored THEN @ + 1 ELSE @]
    ELSE Tally(ed, e.languageId, e.contentChanges)

\* an edit event arrives
EditArrives(events, maxIgnored) ==
    /\ activation = "done"
    /\ ~disposed
    /\ nextHandle < MaxEdits
    /\ \E e \in events, editor \in BOOLEAN :
          Commit([OnDidChangeTextDocument(Mem, e, editor, now) EXCEPT
                     !.edited = Noted(@, e, editor, maxIgnored)])
    /\ UNCHANGED <<clockVars, activation, deactivation, disposed, credVars>>

\* a pending watchdog timer expires: its callback runs endSession()
WatchdogFires ==
    /\ \E t \in timeouts :
          /\ t.due <= now
          /\ Commit(EndSession([Mem EXCEPT !.timeouts = @ \ {t}], now, "watchdog"))
    /\ UNCHANGED <<clockVars, activation, deactivation, disposed, credVars>>

\* the response to a coding-stats call arrives and its promise settles
StatsResponse ==
    /\ \E i \in 1..Len(statsCalls), resp \in StatsResponses :
          /\ statsCalls[i].response = "pending"
          /\ statsCalls' = [statsCalls EXCEPT ![i].response = resp,
                                              ![i].settled = SendResult(resp)]
    /\ UNCHANGED <<clockVars, timer, dailyStats, inactivityTimeout, isTracking, rankyUser,
                   currentPanel, statsAlreadySent, timeouts, nextHandle, closes, edited,
                   activation, acquisitions, deactivation, disposed, credVars>>

(***************************************************************************)
(* Shutdown: deactivate (lines 812-853) and the dispose handler            *)
(***************************************************************************)
\* deactivate() up to its await, or to its end when nothing is sent
DeactivateStart ==
    /\ activation = "done"
    /\ deactivation = "none"
    /\ LET m == DeactivateBegin(Mem, now) IN
       IF ShouldSendOnDeactivate(m)
       THEN /\ Commit(SendCloseStats(m))
            /\ deactivation' = "awaiting"
       ELSE /\ Commit([m EXCEPT !.rankyUser = null])
            /\ deactivation' = "done"
    /\ UNCHANGED <<clockVars, activation, disposed, credVars>>

\* deactivate() after `await sendCodingStatsToBackend`: line 849, or the catch
DeactivateResume ==
    /\ deactivation = "awaiting"
    /\ \E i \in 1..Len(statsCalls) :
          /\ statsCalls[i].awaited
          /\ statsCalls[i].settled # "pending"
          /\ rankyUser' = IF statsCalls[i].settled = "rejected" THEN rankyUser ELSE null
    /\ deactivation' = "done"
    /\ UNCHANGED <<clockVars, timer, dailyStats, inactivityTimeout, isTracking,
                   currentPanel, statsAlreadySent, timeouts, nextHandle, statsCalls,
                   closes, edited, activation, acquisitions, disposed, credVars>>

\* the host disposes context.subscriptions
Dispose ==
    /\ activation = "done"
    /\ ~disposed
    /\ Commit(DisposeHandler(Mem, now))
    /\ disposed' = TRUE
    /\ UNCHANGED <<clockVars, activation, deactivation, credVars>>

(***************************************************************************)
(* The token panel and the credential operations: processTokenFromWebView  *)
(* (lines 482-537) and clearAuthenticationData (lines 586-595).  A vault   *)
(* call takes effect when it is made and is taken to succeed; what follows *)
(* its `await` runs in a later step.  The steps are functions on the state *)
(* these operations touch.                                                 *)
(***************************************************************************)
otherVars ==
    <<clockVars, timer, dailyStats, inactivityTimeout, isTracking, statsAlreadySent,
      timeouts, nextHandle, statsCalls, closes, edited, activation, acquisitions,
      deactivation, disposed>>

\* ranky.refreshAuth / ranky.enterToken: showTokenWebView
ShowTokenWebView ==
    /\ activation = "done"
    /\ ~disposed
    /\ currentPanel' = TRUE
    /\ UNCHANGED <<otherVars, rankyUser, credVars>>

\* the user closes or cancels the panel: onDidDispose
PanelClosed ==
    /\ currentPanel
    /\ currentPanel' = FALSE
    /\ UNCHANGED <<otherVars, rankyUser, credVars>>

Cred ==
    [vault |-> vault, rankyUser |-> rankyUser, tasks |-> tasks, verified |-> verified,
     createCalls |-> createCalls, provisioned |-> provisioned]

CommitCred(c) ==
    /\ vault' = c.vault
    /\ rankyUser' = c.rankyUser
    /\ tasks' = c.tasks
    /\ verified' = c.verified
    /\ createCalls' = c.createCalls
    /\ provisioned' = c.provisioned

NewTask(kind, token) ==
    [kind |-> kind, pc |-> "delete_auth", token |-> token, userData |-> null,
     result |-> "pending", verifyCalls |-> 0, createCalls |-> 0, overlapped |-> FALSE]

\* history: the operations in flight when another one starts overlap with it
MarkOverlapped(ts) ==
    IF Cardinality({i \in 1..Len(ts) : ts[i].pc # "done"}) > 1
    THEN [i \in 1..Len(ts) |->
            IF ts[i].pc # "done" THEN [ts[i] EXCEPT !.overlapped = TRUE] ELSE ts[i]]
    ELSE ts

\* mutant of BeginTask: the profile entry is left in the vault
BeginTask_KeepsAuth(c, kind, token) ==
    [c EXCEPT !.tasks = MarkOverlapped(Append(@, NewTask(kind, token)))]

\* the handler starts; clearAuthenticationData, line 588: the profile entry is deleted
BeginTask(c, kind, token) ==
    [c EXCEPT !.tasks = MarkOverlapped(Append(@, NewTask(kind, token))),
              !.vault.auth = null]

\* mutant of DeleteToken: the token entry is left in the vault
DeleteToken_KeepsToken(c, i) ==
    [c EXCEPT !.tasks[i].pc = "delete_token"]

\* clearAuthenticationData, line 589: the token entry is deleted
DeleteToken(c, i) ==
    [c EXCEPT !.vault.token = null, !.tasks[i].pc = "delete_token"]

\* mutant of FinishClear: the credential in memory is left as it is
FinishClear_KeepsUser(c, i) ==
    [c EXCEPT !.tasks[i] =
                  IF @.kind = "clearAuth"
                  THEN [@ EXCEPT !.pc = "done", !.result = "cleared"]
                  ELSE IF ParseJWT(@.token) = null
                       THEN [@ EXCEPT !.pc = "done", !.result = "invalid_token"]
                       ELSE [@ EXCEPT !.pc = "verify", !.verifyCalls = @ + 1]]

\* clearAuthenticationData, line 590, and for a submission lines 489-494: the
\* token is parsed and the verify-auth call is issued
FinishClear(c, i) ==
    [c EXCEPT !.rankyUser = null,
              !.tasks[i] =
                  IF @.kind = "clearAuth"
                  THEN [@ EXCEPT !.pc = "done", !.result = "cleared"]
                  ELSE IF ParseJWT(@.token) = null
                       THEN [@ EXCEPT !.pc = "done", !.result = "invalid_token"]
                       ELSE [@ EXCEPT !.pc = "verify", !.verifyCalls = @ + 1]]

\* mutant of OnVerified: the answer of verify-auth is not looked at
OnVerified_Unchecked(c, i, resp) ==
    LET payload == ParseJWT(c.tasks[i].token)
        userData == UserDataOf(payload)
    IN [c EXCEPT !.tasks[i].pc = "create",
                 !.tasks[i].userData = userData,
                 !.tasks[i].createCalls = @ + 1,
                 !.verified = IF VerifyAuthWithBackend(resp) THEN @ \cup {payload.userId} ELSE @,
                 !.createCalls =
                     Append(@, [email |-> userData.email, uniqueId |-> userData.userId,
                                name |-> userData.name,
                                afterSuccess |-> c.provisioned])]

\* lines 494-509: the verify-auth response; on success the create-account call
\* is issued
OnVerified(c, i, resp) ==
    LET payload == ParseJWT(c.tasks[i].token)
        userData == UserDataOf(payload)
    IN IF VerifyAuthWithBackend(resp)
       THEN [c EXCEPT !.tasks[i].pc = "create",
                      !.tasks[i].userData = userData,
                      !.tasks[i].createCalls = @ + 1,
                      !.verified = @ \cup {payload.userId},
                      !.createCalls =
                          Append(@, [email |-> userData.email, uniqueId |-> userData.userId,
                                     name |-> userData.name,
                                     afterSuccess |-> c.provisioned])]
       ELSE [c EXCEPT !.tasks[i].pc = "done", !.tasks[i].result = "verification_failed"]

\* lines 510-517 and 530-536: the create-account response; on success the
\* profile entry is stored, otherwise the thrown error is caught
OnAccountCreated(c, i, resp) ==
    IF CreateUserAccount(resp)
    THEN [c EXCEPT !.vault.auth = JsonStringify(NewUserData(c.tasks[i].userData)),
                   !.tasks[i].pc = "store_auth"]
    ELSE [c EXCEPT !.tasks[i].pc = "done", !.tasks[i].result = "error"]

\* line 518: the raw token is stored
StoreToken(c, i) ==
    [c EXCEPT !.vault.token = c.tasks[i].token, !.tasks[i].pc = "store_token"]

\* lines 520-528: the credential is set and success is returned
FinishToken(c, i) ==
    [c EXCEPT !.rankyUser = c.tasks[i].userData,
              !.tasks[i].pc = "done",
              !.tasks[i].result = "success",
              !.provisioned = TRUE]

\* the webview posts submitToken (lines 387-402)
SubmitToken(tokens, maxTasks) ==
    /\ activation = "done"
    /\ ~disposed
    /\ currentPanel
    /\ Len(tasks) < maxTasks
    /\ \E token \in tokens : CommitCred(BeginTask(Cred, "submitToken", token))
    /\ UNCHANGED <<otherVars, currentPanel>>

\* ranky.clearAuth (lines 667-680)
ClearAuthCommand(maxTasks) ==
    /\ activation = "done"
    /\ ~disposed
    /\ Len(tasks) < maxTasks
    /\ CommitCred(BeginTask(Cred, "clearAuth", null))
    /\ UNCHANGED <<otherVars, currentPanel>>

\* one operation resumes after an await
TaskStep ==
    /\ \E i \in 1..Len(tasks) :
          \/ /\ tasks[i].pc = "delete_auth"
             /\ CommitCred(DeleteToken(Cred, i))
          \/ /\ tasks[i].pc = "delete_token"
             /\ CommitCred(FinishClear(Cred, i))
          \/ /\ tasks[i].pc = "verify"
             /\ \E resp \in VerifyResponses : CommitCred(OnVerified(Cred, i, resp))
          \/ /\ tasks[i].pc = "create"
             /\ \E resp \in CreateResponses : CommitCred(OnAccountCreated(Cred, i, resp))
          \/ /\ tasks[i].pc = "store_auth"
             /\ CommitCred(StoreToken(Cred, i))
          \/ /\ tasks[i].pc = "store_token"
             /\ CommitCred(FinishToken(Cred, i))
    /\ UNCHANGED <<otherVars, currentPanel>>

(***************************************************************************)
(* The same operations as the session handlers see them.  Those handlers   *)
(* (edits, endSession, dispose, deactivate) share one variable with a      *)
(* credential operation, rankyUser, which it writes twice: on line 590 and *)
(* on line 520.  Its other steps commute with them, so in Spec each        *)
(* operation runs in two stretches, each ending in one of these writes.    *)
(***************************************************************************)
\* the handler up to the end of clearAuthenticationData
RunClear(c, kind, token) ==
    LET i == Len(c.tasks) + 1
    IN FinishClear(DeleteToken(BeginTask(c, kind, token), i), i)

\* processTokenFromWebView from a successful verify-auth response to its return
RunToken(c, i, verifyResp, createResp) ==
    LET c1 == OnAccountCreated(OnVerified(c, i, verifyResp), i, createResp)
    IN IF c1.tasks[i].pc = "done" THEN c1 ELSE FinishToken(StoreToken(c1, i), i)

\* Spec keeps the operations in flight; the record of what the finished ones
\* did is SpecAuth's
CommitInFlight(c) ==
    /\ vault' = c.vault
    /\ rankyUser' = c.rankyUser
    /\ tasks' = SelectSeq(c.tasks, LAMBDA t : t.pc # "done")
    /\ UNCHANGED <<verified, createCalls, provisioned>>

SubmitTokenCleared(tokens, maxTasks) ==
    /\ activation = "done"
    /\ ~disposed
    /\ currentPanel
    /\ Len(tasks) < maxTasks
    /\ \E token \in tokens : CommitInFlight(RunClear(Cred, "submitToken", token))
    /\ UNCHANGED <<otherVars, currentPanel>>

ClearAuthCleared(maxTasks) ==
    /\ activation = "done"
    /\ ~disposed
    /\ Len(tasks) < maxTasks
    /\ CommitInFlight(RunClear(Cred, "clearAuth", null))
    /\ UNCHANGED <<otherVars, currentPanel>>

TokenReturns ==
    /\ \E i \in 1..Len(tasks), verifyResp \in VerifyResponses :
          /\ tasks[i].pc = "verify"
          /\ IF VerifyAuthWithBackend(verifyResp)
             THEN \E createResp \in CreateResponses :
                     CommitInFlight(RunToken(Cred, i, verifyResp, createResp))
             ELSE CommitInFlight(OnVerified(Cred, i, verifyResp))
    /\ UNCHANGED <<otherVars, currentPanel>>

(***************************************************************************)
(* Specifications                                                          *)
(***************************************************************************)
vars ==
    <<now, ticks, timer, obs, dailyStats, inactivityTimeout, isTracking, rankyUser,
      currentPanel, statsAlreadySent, timeouts, nextHandle, statsCalls, closes, edited,
      activation, acquisitions, deactivation, disposed, vault, tasks, verified,
      createCalls, provisioned>>

\* the process has loaded the module; the vault is one of `vaults`
Boot(vaults) ==
    /\ now = 0
    /\ ticks = 0
    /\ timer = NewTimer
    /\ obs = NoObs
    /\ dailyStats = InitialDailyStats
    /\ inactivityTimeout = NoHandle
    /\ isTracking = FALSE
    /\ rankyUser = null
    /\ currentPanel = FALSE
    /\ statsAlreadySent = FALSE
    /\ timeouts = {}
    /\ nextHandle = 0
    /\ statsCalls = <<>>
    /\ closes = <<>>
    /\ edited = NoEdits
    /\ activation = "none"
    /\ acquisitions = 0
    /\ deactivation = "none"
    /\ disposed = FALSE
    /\ vault \in vaults
    /\ tasks = <<>>
    /\ verified = {}
    /\ createCalls = <<>>
    /\ provisioned = (vault.auth # null)

\* the vault is as the earlier runs that completed left it
Init == Boot(InitialVaults)

\* one run of the extension
Next ==
    \/ SessionTick
    \/ Activate
    \/ ActivateAuthenticate
    \/ ActivateVerified
    \/ EditArrives(SessionEdits, 0)
    \/ WatchdogFires
    \/ StatsResponse
    \/ DeactivateStart
    \/ DeactivateResume
    \/ Dispose
    \/ ShowTokenWebView
    \/ SubmitTokenCleared({TokenAlice}, MaxTasks)
    \/ ClearAuthCleared(MaxTasks)
    \/ TokenReturns

Spec == Init /\ [][Next]_vars

\* the credential lifecycle of one run, every await a step
NextAuth ==
    \/ Activate
    \/ ActivateAuthenticate
    \/ ActivateVerified
    \/ ShowTokenWebView
    \/ PanelClosed
    \/ SubmitToken(Tokens, MaxSubmissions)
    \/ ClearAuthCommand(MaxSubmissions)
    \/ TaskStep
    \/ DeactivateStart
    \/ Dispose

SpecAuth == Init /\ [][NextAuth]_vars

\* the credential lifecycle from whatever the vault holds at start-up
InitAnyVault == Boot(AnyVaults)

SpecBoot == InitAnyVault /\ [][NextAuth]_vars

\* sessions that no shutdown interrupts, under a clock that keeps going and a
\* host that runs the timers that are due
NextLive ==
    \/ SessionTick
    \/ AwaitTimer
    \/ Activate
    \/ ActivateAuthenticate
    \/ ActivateVerified
    \/ EditArrives(SessionEdits, 0)
    \/ WatchdogFires

SpecLive ==
    /\ Init
    /\ [][NextLive]_vars
    /\ WF_vars(AwaitTimer)
    /\ WF_vars(WatchdogFires)

\* the day record under the edits of an editor
NextEdits ==
    \/ Activate
    \/ ActivateAuthenticate
    \/ ActivateVerified
    \/ EditArrives(EditorEdits, MaxIgnored)
    \/ DeactivateStart
    \/ Dispose

SpecEdits == Init /\ [][NextEdits]_vars

\* the Timer class driven by an arbitrary caller
NextTimer ==
    \/ Tick
    \/ CallStart
    \/ CallStop
    \/ CallPause
    \/ CallResume
    \/ CallReset

SpecTimer == Init /\ [][NextTimer]_vars

(***************************************************************************)
(* Properties of the Timer (SpecTimer)                                     *)
(***************************************************************************)
Elapsed == GetElapsedTime(timer, now)

LastOp == IF obs.lastOps = <<>> THEN "none" ELSE obs.lastOps[Len(obs.lastOps)]

\* the step is a call of reset()
ResetStep == now' = now /\ obs'.lastOps # <<>> /\ obs'.lastOps[Len(obs'.lastOps)] = "reset"

\* C8: under start/pause/resume/stop calls and a non-decreasing clock,
\* getElapsedTime() is never negative, does not decrease from one state to the
\* next while the timer stays running, and keeps its value from one state to the
\* next while the timer stays paused or stopped.
C8_ElapsedMonotone ==
    /\ [](Elapsed >= 0)
    /\ [][~ResetStep =>
            /\ (timer.running /\ timer'.running) =>
                  GetElapsedTime(timer', now') >= Elapsed
            /\ (~timer.running /\ ~timer'.running) =>
                  GetElapsedTime(timer', now') = Elapsed]_vars

\* a paused timer that had run for a positive time, observed after the clock moved on
C8_Witness ==
    /\ LastOp = "pause"
    /\ obs.pausedRunning
    /\ obs.atPause > 0
    /\ now > obs.pausedAt
    /\ ~timer.running

\* C9: pause() on a running timer with positive elapsed time, then resume():
\* at the instant of resume the timer runs and getElapsedTime() is the value
\* captured at pause, however long the pause lasted.
C9_ResumeKeepsElapsed ==
    (obs.lastOps = <<"pause", "resume">> /\ obs.pausedRunning /\ obs.atPause > 0 /\ obs.fresh)
        => (timer.running /\ Elapsed = obs.atPause)

\* resume() has just been called after a pause that lasted a positive time
C9_Witness ==
    /\ obs.lastOps = <<"pause", "resume">>
    /\ obs.pausedRunning
    /\ obs.atPause > 0
    /\ obs.fresh
    /\ now > obs.pausedAt
    /\ timer.running

\* C10: from every reachable state, stop() then start() leaves the timer
\* running with getElapsedTime() = 0 at the instant of start().
C10_StopStartFresh ==
    (obs.lastOps = <<"stop", "start">> /\ obs.fresh) => (timer.running /\ Elapsed = 0)

\* C11: in every state reached by start/stop/pause/resume/reset calls, a running
\* timer has a start time and no end time.
C11_RunningHasStart ==
    timer.running => (timer.startTime # NullTime /\ timer.endTime = NullTime)

\* the timer runs again after an interval that stop() had ended
C11_Witness ==
    /\ obs.lastOps = <<"stop", "start">>
    /\ timer.running
    /\ timer.startTime > 0
    /\ timer.startTime = now

(***************************************************************************)
(* Properties of delivery (Spec)                                           *)
(***************************************************************************)
Calls == 1..Len(statsCalls)
Closes == 1..Len(closes)

\* the step closes a session (endSession with the clock running)
CloseStep == Len(closes') = Len(closes) + 1

RECURSIVE SumElapsed(_)
SumElapsed(S) ==
    IF S = {} THEN 0
    ELSE LET i == CHOOSE j \in S : TRUE IN closes[i].elapsed + SumElapsed(S \ {i})

\* the closes that happened before call k was issued, the one issuing it included
ClosesBefore(k) == {i \in Closes : closes[i].callsBefore < k}

\* C1: at most one coding-stats call is issued in a run, and statsAlreadySent,
\* once true, stays true.
C1_AtMostOneDelivery ==
    /\ [](Len(statsCalls) <= 1)
    /\ [][statsAlreadySent => statsAlreadySent']_vars

\* the one call was issued by an inactivity close, and the run has since been
\* closed again and deactivated
C1_Witness ==
    /\ Len(statsCalls) = 1
    /\ statsCalls[1].payload.sessionEndReason = "inactivity"
    /\ Len(closes) >= 2
    /\ deactivation = "done"

\* C2 as stated: every close with a credential held and positive total time
\* issues exactly one coding-stats call.
C2_OncePerClose ==
    [][(CloseStep /\ rankyUser # null /\ dailyStats'.totalTimeMinutes > 0)
          => Len(statsCalls') = Len(statsCalls) + 1]_vars

\* C2 amended: such a close issues exactly one call when no call was issued
\* earlier in the run, and none otherwise.
C2_OncePerRun ==
    [][(CloseStep /\ rankyUser # null /\ dailyStats'.totalTimeMinutes > 0)
          => Len(statsCalls') = Len(statsCalls) + (IF statsAlreadySent THEN 0 ELSE 1)]_vars

\* a close with a credential held found the record already sent, after a close that sent it
C2_Witness ==
    /\ Len(statsCalls) = 1
    /\ \E i, j \in Closes :
          /\ i < j
          /\ closes[i].hadUser /\ ~closes[i].sentBefore /\ closes[i].elapsed > 0
          /\ closes[j].hadUser /\ closes[j].sentBefore /\ closes[j].elapsed > 0

\* C3: the flag is true whenever a call is in flight or has completed; a failed
\* call is not followed by a second one; the promise of a call is never rejected,
\* so nothing is thrown to endSession, deactivate or the host.
C3_MarkedBeforeSend ==
    \A k \in Calls :
        /\ statsAlreadySent
        /\ statsCalls[k].settled # "rejected"
        /\ statsCalls[k].settled = "false" => Len(statsCalls) = 1

\* a call awaited by deactivate failed by a thrown error and deactivate completed
C3_Witness ==
    /\ deactivation = "done"
    /\ \E k \in Calls :
          /\ statsCalls[k].awaited
          /\ statsCalls[k].response = "throws"
          /\ statsCalls[k].settled = "false"

C5_ReauthOnUnauthorized ==
    \A k \in Calls :
        statsCalls[k].response = "unauthorized"
            => acquisitions = statsCalls[k].acquisitionsBefore + 1

(***************************************************************************)
(* Properties of token authentication (SpecAuth)                           *)
(***************************************************************************)
Tasks == 1..Len(tasks)

\* the step is the successful return of submission i
SucceedsAt(i) == tasks[i].pc # "done" /\ tasks'[i].pc = "done" /\ tasks'[i].result = "success"

\* C6: a submission whose token verifies, whose userId is confirmed and whose
\* account is created returns with both vault entries stored, rankyUser the
\* identity the token carries, and exactly one create-account call of its own.
C6_TokenAuthenticates ==
    [][\A i \in Tasks :
          SucceedsAt(i) =>
             /\ vault'.auth # null
             /\ vault'.token = tasks[i].token
             /\ rankyUser' = TokenIdentity(ParseJWT(tasks[i].token))
             /\ tasks'[i].createCalls = 1]_vars

\* C7: once a token authentication has provisioned the installation, no
\* further create-account call is issued.
C7_ProvisionedOnce ==
    \A c \in 1..Len(createCalls) : ~createCalls[c].afterSuccess


(***************************************************************************)
(* Properties of the day record (SpecEdits, Spec)                          *)
(***************************************************************************)
\* C12: after any sequence of processed edit events, totalLines is the number
\* of newline characters in the inserted texts of all their content changes,
\* insertions and replacements alike.
C12_LinesAreNewlines ==
    dailyStats.totalLines = edited.newlines

\* an insertion of one line break and a replacement by a text of two have been processed
C12_Witness ==
    /\ nextHandle = 2
    /\ edited.newlines = 3
    /\ dailyStats.totalLines = 3

\* C13: after any sequence of processed edit events, totalWords is the number
\* of whitespace-separated tokens of the changes that are pure insertions of
\* non-blank text without a newline; every other change leaves it as it is.
C13_WordsAreTokens ==
    dailyStats.totalWords = edited.tokens

\* a replacement by a word, inside an event that also inserts two words, and a
\* replacement by text with line breaks have been processed
C13_Witness ==
    /\ nextHandle = 2
    /\ edited.languageIds = {"go"}
    /\ edited.newlines = 2
    /\ dailyStats.totalWords = 2

NoDuplicates(seq) == \A i, j \in 1..Len(seq) : seq[i] = seq[j] => i = j

\* C14: dailyStats.languages holds exactly the language identifiers of the
\* processed events, each once, and the languages array of every payload sent
\* has no duplicates.
C14_LanguagesDistinct ==
    /\ {dailyStats.languages[i] : i \in 1..Len(dailyStats.languages)} = edited.languageIds
    /\ NoDuplicates(dailyStats.languages)
    /\ \A k \in Calls : NoDuplicates(statsCalls[k].payload.languages)

\* a payload was sent after two edits in the same language
C14_Witness ==
    /\ nextHandle = 2
    /\ edited.languageIds = {"python"}
    /\ \E k \in Calls :
          /\ statsCalls[k].payload.totalWords = 4
          /\ statsCalls[k].payload.languages = <<"python">>

\* the step is the arrival of an event with no active editor or with no
\* content changes
IgnorableStep == edited'.ignored = edited.ignored + 1

\* C31: an edit event that arrives with no active editor, or that carries no
\* content changes, leaves the language set, totalWords, totalLines, the
\* activity clock and the watchdog (the handle, the pending timer, the number
\* of timers scheduled) as they were.
C31_IgnoredEvent ==
    [][IgnorableStep =>
          UNCHANGED <<dailyStats, timer, isTracking, inactivityTimeout, timeouts,
                      nextHandle>>]_vars

\* two such events have arrived, and the one edit that was processed has left
\* its session open and its timer pending
C31_Witness ==
    /\ edited.ignored = 2
    /\ nextHandle = 1
    /\ IsRunning(timer)
    /\ timeouts # {}
    /\ dailyStats.totalWords > 0
    /\ Len(dailyStats.languages) = 1

(***************************************************************************)
(* Properties of the watchdog and of session time (Spec)                   *)
(***************************************************************************)
\* C15: at most one watchdog timer is pending in every state, and a pending
\* timer is the one the last processed edit scheduled: the timer of an earlier
\* edit cannot fire once a later edit has been processed.
C15_OnePendingTimer ==
    /\ Cardinality(timeouts) <= 1
    /\ \A t \in timeouts : t.id = nextHandle /\ t.id = inactivityTimeout

\* a second edit was processed, after the clock had moved on, while the timer
\* of the first was pending
C15_Witness ==
    /\ nextHandle = 2
    /\ closes = <<>>
    /\ \E t \in timeouts : t.due > InactivityMs

\* C16: with no shutdown, a session that is open is eventually closed (later
\* edits only re-arm the timer), and the step that stops the clock is the
\* watchdog's endSession, which adds the elapsed seconds of the session to the
\* day record.
C16_WatchdogCloses ==
    /\ IsRunning(timer) ~> ~IsRunning(timer)
    /\ [][(IsRunning(timer) /\ ~IsRunning(timer'))
             => /\ CloseStep
                /\ closes'[Len(closes')].by = "watchdog"
                /\ dailyStats'.totalTimeMinutes =
                      dailyStats.totalTimeMinutes + GetElapsedSeconds(timer, now)]_vars

\* the watchdog closed a session that had lasted the inactivity threshold, with no shutdown
C16_Witness ==
    /\ ~IsRunning(timer)
    /\ \E i \in Closes : closes[i].by = "watchdog" /\ closes[i].elapsed > 0

\* C17: the day record's time is the sum of the elapsed seconds of the sessions
\* closed so far; a step adds to it only by stopping a running clock, and then
\* the elapsed seconds of that clock; every close stops the clock, so no caller
\* of endSession counts a session again.
C17_NoDoubleCount ==
    /\ [](dailyStats.totalTimeMinutes = SumElapsed(Closes))
    /\ [][dailyStats'.totalTimeMinutes =
             dailyStats.totalTimeMinutes +
                (IF IsRunning(timer) /\ ~IsRunning(timer')
                 THEN GetElapsedSeconds(timer, now) ELSE 0)]_vars
    /\ [][CloseStep => (IsRunning(timer) /\ ~IsRunning(timer'))]_vars

\* a session closed by the watchdog and one closed by deactivate, both of
\* positive length, and the dispose handler has run after them
C17_Witness ==
    /\ disposed
    /\ deactivation = "done"
    /\ Len(closes) = 2
    /\ closes[1].by = "watchdog" /\ closes[1].elapsed > 0
    /\ closes[2].by = "deactivate" /\ closes[2].elapsed > 0

\* the step is the close of a session by the watchdog's endSession
WatchdogClose == CloseStep /\ closes'[Len(closes')].by = "watchdog"

\* what the step adds to the day record's time, hundredths of a second
Added == dailyStats'.totalTimeMinutes - dailyStats.totalTimeMinutes

\* the time between the first edit of the open session and the edit that
\* scheduled timer t, ms
EditSpan(t) == (t.due - InactivityMs) - timer.startTime

EditStep == edited' # edited

\* C28: in every state the activity clock runs if and only if a watchdog timer
\* is pending; a processed edit leaves both on, a close (by the watchdog, the
\* dispose handler or deactivate) leaves both off; as long as no edit has been
\* processed no timer has been scheduled and no close has added time.
C28_ClockIffWatchdog ==
    /\ [](IsRunning(timer) <=> timeouts # {})
    /\ [][EditStep => (IsRunning(timer') /\ timeouts' # {})]_vars
    /\ [][CloseStep => (~IsRunning(timer') /\ timeouts' = {})]_vars
    /\ [](edited = NoEdits =>
             (nextHandle = 0 /\ closes = <<>> /\ dailyStats.totalTimeMinutes = 0))

\* a session was closed by the watchdog, the next by the dispose handler, and
\* the last state has the clock stopped and no timer pending
C28_Witness ==
    /\ disposed
    /\ ~IsRunning(timer)
    /\ timeouts = {}
    /\ Len(closes) = 2
    /\ closes[1].by = "watchdog"
    /\ closes[2].by = "dispose"
    /\ deactivation = "none"

\* the close whose endSession issued call k (for a call that endSession issued):
\* the last close that found k - 1 calls issued
IssuingClose(k) ==
    CHOOSE i \in Closes :
        /\ closes[i].callsBefore = k - 1
        /\ \A j \in Closes : closes[j].callsBefore = k - 1 => j <= i

\* C18: a payload sent by a watchdog close carries sessionEndReason
\* "inactivity"; a payload sent at shutdown, by the close that deactivate or the
\* dispose handler performs or by deactivate's own flush, carries "vscode_close".
C18_ReasonTagged ==
    \A k \in Calls :
        statsCalls[k].payload.sessionEndReason =
            IF statsCalls[k].awaited THEN "vscode_close"
            ELSE IF closes[IssuingClose(k)].by = "watchdog" THEN "inactivity"
            ELSE "vscode_close"

(***************************************************************************)
(* Properties of the credential (SpecAuth)                                 *)
(***************************************************************************)
\* C19: whenever rankyUser is set, the verify-auth call has answered success
\* for its userId earlier in this run.
C19_VerifiedCredential ==
    rankyUser # null => Field(rankyUser, "userId") \in verified

\* a token submission set the credential after another submission had failed verification
C19_Witness ==
    /\ rankyUser # null
    /\ Field(rankyUser, "userId") = "u2"
    /\ \E i \in Tasks : tasks[i].pc = "done" /\ tasks[i].result = "verification_failed"

\* submission i carries a token that is malformed or fails the signature check
InvalidSubmission(t) == t.kind = "submitToken" /\ ~t.token.signed

\* C20: a submission of an invalid token issues no verify-auth and no
\* create-account call and returns the invalid-token error right after clearing;
\* none of its steps stores anything in the vault (an entry stays as it is or is
\* deleted) or sets rankyUser to an identity.
C20_InvalidTokenRejected ==
    /\ [](\A i \in Tasks :
             InvalidSubmission(tasks[i]) =>
                /\ tasks[i].verifyCalls = 0
                /\ tasks[i].createCalls = 0
                /\ tasks[i].pc \in {"delete_auth", "delete_token", "done"}
                /\ tasks[i].pc = "done" => tasks[i].result = "invalid_token")
    /\ [][\A i \in 1..Len(tasks') :
             (InvalidSubmission(tasks'[i]) /\ (i > Len(tasks) \/ tasks'[i] # tasks[i]))
                => /\ vault'.auth \in {vault.auth, null}
                   /\ vault'.token \in {vault.token, null}
                   /\ rankyUser' \in {rankyUser, null}]_vars

\* a forged token was submitted and refused while another submission was under way
C20_Witness ==
    \E i, j \in Tasks :
        /\ InvalidSubmission(tasks[i])
        /\ tasks[i].pc = "done"
        /\ tasks[i].result = "invalid_token"
        /\ tasks[j].kind = "submitToken"
        /\ tasks[j].token.signed
        /\ tasks[j].pc \notin {"done", "delete_auth", "delete_token"}

\* the step is the return of submission i with the given failure
FailsAt(i, result) ==
    tasks[i].pc # "done" /\ tasks'[i].pc = "done" /\ tasks'[i].result = result

Failures == {"invalid_token", "verification_failed", "error"}

Quiescent == activation = "done" /\ \A i \in Tasks : tasks[i].pc = "done"

\* C30: however token submissions, the clear command and activation interleave
\* at their awaits, a state with no credential operation in flight has both
\* vault entries or neither, and has rankyUser set only with both entries; a
\* clear that was started and has completed during a submission is not followed
\* by that submission setting rankyUser.
C30_QuiescentConsistent ==
    /\ [](Quiescent =>
             /\ vault.auth = null <=> vault.token = null
             /\ rankyUser # null => (vault.auth # null /\ vault.token # null))
    /\ [][\A i \in Tasks :
             SucceedsAt(i) =>
                ~\E c \in Tasks :
                    c > i /\ tasks[c].kind = "clearAuth" /\ tasks[c].pc = "done"]_vars

(***************************************************************************)
(* Properties of activation (SpecBoot)                                     *)
(***************************************************************************)
\* the step is the return of authenticateWithToken to activate
ActivationEnds == activation # "done" /\ activation' = "done"

\* the vault lacks the profile or the token entry
LacksEntry == vault.auth = null \/ vault.token = null

\* the cached profile is there and is not JSON text
Unparsable == ~LacksEntry /\ ~vault.auth.wellFormed

\* the step is a verify-auth answer other than success for the cached profile
Refused == activation = "verifying" /\ verified' = verified

\* C25: activation opens the token panel if and only if the vault lacks an
\* entry, or the cached profile cannot be parsed or is refused by verify-auth;
\* otherwise rankyUser is the cached profile, the vault is kept and no
\* create-account call is issued.
C25_PromptIffNoCredential ==
    [][ActivationEnds =>
          /\ currentPanel' <=> (LacksEntry \/ Unparsable \/ Refused)
          /\ ~(LacksEntry \/ Unparsable \/ Refused) =>
                /\ rankyUser' = vault.auth.value
                /\ vault' = vault
                /\ createCalls' = <<>>]_vars

\* activation found the profile without the token and opened the panel
C25_Witness ==
    /\ activation = "done"
    /\ currentPanel
    /\ rankyUser = null
    /\ vault.auth # null
    /\ vault.token = null
    /\ tasks = <<>>

SendStep == Len(statsCalls') = Len(statsCalls) + 1

\* C26: the payload of a call is built from the state of the step that issues
\* it: the credential held before the step, and the day record with the elapsed
\* time of the session the step closes added; it is not changed afterwards.
C26_PayloadFromState ==
    /\ [][SendStep =>
             LET payload == statsCalls'[Len(statsCalls')].payload
                 sessionTime == IF IsRunning(timer) THEN GetElapsedSeconds(timer, now) ELSE 0
             IN /\ rankyUser # null
                /\ payload.email = Field(rankyUser, "email")
                /\ payload.uniqueId = Field(rankyUser, "userId")
                /\ payload.date = dailyStats'.date
                /\ payload.totalTimeMinutes = dailyStats.totalTimeMinutes + sessionTime
                /\ payload.totalTimeMinutes = dailyStats'.totalTimeMinutes
                /\ payload.totalWords = dailyStats'.totalWords
                /\ payload.totalLines = dailyStats'.totalLines
                /\ payload.languages = dailyStats'.languages]_vars
    /\ [][\A k \in Calls : statsCalls'[k].payload = statsCalls[k].payload]_vars

\* deactivate sent the record of a session that had been closed with no
\* credential held, for the credential acquired since
C26_Witness ==
    \E k \in Calls :
        /\ statsCalls[k].awaited
        /\ statsCalls[k].payload.email = "alice@x"
        /\ statsCalls[k].payload.totalTimeMinutes > 0
        /\ statsCalls[k].payload.totalWords > 0
        /\ statsCalls[k].payload.languages # <<>>
        /\ \E i \in Closes : ~closes[i].hadUser

\* call k was issued by deactivate: by its own flush, or by the endSession it ran
IssuedByDeactivate(k) ==
    IF statsCalls[k].awaited THEN TRUE
    ELSE closes[IssuingClose(k)].by = "deactivate"

\* C27: when the promise of deactivate has resolved, every coding-stats call
\* that deactivate caused, the one of its endSession included, has completed.
C27_ShutdownDrains ==
    deactivation = "done" =>
        \A k \in Calls : IssuedByDeactivate(k) => statsCalls[k].settled # "pending"

\* C29: statsAlreadySent is true exactly when a coding-stats call has been
\* issued in this run; a close with no credential held, or that leaves the
\* record's time at 0, issues no call and leaves the flag as it is, false when
\* nothing was sent before; no payload carries a total time of 0.
C29_FlagIffSent ==
    /\ [](statsAlreadySent <=> statsCalls # <<>>)
    /\ [][(CloseStep /\ (rankyUser = null \/ dailyStats'.totalTimeMinutes = 0))
             => /\ statsCalls' = statsCalls
                /\ statsAlreadySent' = statsAlreadySent
                /\ statsCalls = <<>> => ~statsAlreadySent']_vars
    /\ [](\A k \in Calls : statsCalls[k].payload.totalTimeMinutes > 0)

\* deactivate closed a session within the hundredth of a second in which it was
\* opened, with a credential held: nothing was sent and the flag is false
C29_Witness ==
    /\ ~statsAlreadySent
    /\ statsCalls = <<>>
    /\ dailyStats.totalTimeMinutes = 0
    /\ \E i \in Closes : closes[i].hadUser /\ closes[i].elapsed = 0 /\ closes[i].by = "deactivate"

=============================================================================
